---- MODULE Spec2Model ----
(***************************************************************************)
(* A model of nostr-mcp: the MCP tool dispatch (stdio_server.ts), the      *)
(* NostrClient wrapper (nostr-client.ts, index.ts) and the zod schemas     *)
(* (types.ts).  Relay I/O, signing and lookup are external: each await of  *)
(* the external library is a suspension point whose completion (success or *)
(* failure, and the data returned) is chosen nondeterministically.         *)
(***************************************************************************)
EXTENDS Integers, Sequences, FiniteSets, TLC

(***************************************************************************)
(* Bounds of the model.                                                    *)
(***************************************************************************)
MaxCalls == 2
MaxFetched == 3
MaxShutdowns == 2
MaxActive == 3

(***************************************************************************)
(* JavaScript values.  A string is a sequence of one-character strings, so *)
(* that a pattern can look at every character.                             *)
(***************************************************************************)
IdLen == 64

Undef == [k |-> "undefined", v |-> <<>>]
Str(s) == [k |-> "string", v |-> s]
NotAString == [k |-> "number", v |-> <<>>]

NoNum == [k |-> "undefined", n |-> 0, int |-> TRUE]
Num(n) == [k |-> "number", n |-> n, int |-> TRUE]
Frac(n) == [k |-> "number", n |-> n, int |-> FALSE]

Rep(ch, n) == [i \in 1..n |-> ch]

HexChars ==
  {"0", "1", "2", "3", "4", "5", "6", "7", "8", "9",
   "a", "b", "c", "d", "e", "f", "A", "B", "C", "D", "E", "F"}

(***************************************************************************)
(* types.ts: the zod schemas.                                              *)
(***************************************************************************)
IsString(x) == x.k = "string"

IsAbsent(x) == x.k = "undefined"

\* z.string().min(n)
StringMin(x, n) == IsString(x) /\ Len(x.v) >= n

\* the pattern without its $: /^[0-9a-fA-F]{64}/i
HexIdRegexUnanchored(s) == Len(s) >= IdLen /\ \A i \in 1..IdLen : s[i] \in HexChars
\* /^[0-9a-fA-F]{64}$/i : JavaScript's $ without the m flag matches only at
\* the end of the input.
HexIdRegex(s) == Len(s) = IdLen /\ \A i \in 1..Len(s) : s[i] \in HexChars

\* z.string().regex(/^[0-9a-fA-F]{64}$/i)
HexId(x) == IsString(x) /\ HexIdRegex(x.v)

LimitMin == 1
LimitMax == 500

\* a limit schema without its bounds: z.number().int().optional()
OptLimitUnbounded(x) == IsAbsent(x) \/ (x.k = "number" /\ x.int)
\* z.number().int().min(1).max(500).optional()
OptLimit(x) ==
  IsAbsent(x) \/ (x.k = "number" /\ x.int /\ x.n >= LimitMin /\ x.n <= LimitMax)

PostNoteSchema(a) == StringMin(a.content, 1)

PostCommentSchema(a) ==
  /\ HexId(a.rootId)
  /\ StringMin(a.content, 1)
  /\ (IsAbsent(a.parentId) \/ HexId(a.parentId))

ZapNoteSchema(a) ==
  /\ StringMin(a.nip05Address, 1)
  /\ a.amount.k = "number"
  /\ (a.amount.n >= 1)

GetRepliesSchema(a) == HexId(a.eventId) /\ OptLimit(a.limit)

GetLatestPostsSchema(a) ==
  /\ (IsAbsent(a.authorPubkey) \/ HexId(a.authorPubkey))
  /\ OptLimit(a.limit)

GetUnansweredCommentsSchema(a) == HexId(a.eventId) /\ OptLimit(a.limit)

\* name and about are z.string().min(1).optional(), display_name is
\* z.string().optional(); the refinement wants one field that is defined.
UpdateProfileSchema(a) ==
  /\ (IsAbsent(a.name) \/ StringMin(a.name, 1))
  /\ (IsAbsent(a.about) \/ StringMin(a.about, 1))
  /\ (IsAbsent(a.display_name) \/ IsString(a.display_name))
  /\ (~IsAbsent(a.name) \/ ~IsAbsent(a.about) \/ ~IsAbsent(a.display_name))

KindMax == 65535

CreateTimestampAttestationSchema(a) ==
  /\ HexId(a.eventId)
  /\ a.eventKind.k = "number" /\ a.eventKind.int
  /\ a.eventKind.n >= 0 /\ a.eventKind.n <= KindMax
  /\ StringMin(a.otsProof, 1)

(***************************************************************************)
(* The event matcher: what getReplies and getUnansweredComments do with    *)
(* the events a fetch returned.  A fetch result is the Set<NDKEvent> in    *)
(* its iteration order, a sequence of events with distinct ids.            *)
(***************************************************************************)
Me == "me"

\* created_at ?? 0
CreatedAtOrZero(e) == IF e.created_at.k = "undefined" THEN 0 ELSE e.created_at.n

\* the comparator with its operands swapped
CompareAscending(a, b) == CreatedAtOrZero(a) - CreatedAtOrZero(b)
\* the comparator (a, b) => (b.created_at ?? 0) - (a.created_at ?? 0)
CompareCreatedAt(a, b) == CreatedAtOrZero(b) - CreatedAtOrZero(a)

\* Array.prototype.sort is stable: x goes behind every element that the
\* comparator does not put after it.
InsertSorted(sorted, x) ==
  LET k == Cardinality({i \in 1..Len(sorted) : CompareCreatedAt(sorted[i], x) <= 0})
  IN SubSeq(sorted, 1, k) \o <<x>> \o SubSeq(sorted, k + 1, Len(sorted))

RECURSIVE SortNewestFirst(_)
SortNewestFirst(s) ==
  IF s = <<>> THEN <<>>
  ELSE InsertSorted(SortNewestFirst(SubSeq(s, 1, Len(s) - 1)), s[Len(s)])

ReplyNote(ev) ==
  [id |-> ev.id, pubkey |-> ev.pubkey, content |-> ev.content,
   created_at |-> ev.created_at]

\* Array.from(events).map((e) => ({ id, pubkey, content, created_at }))
ReplyNotes(events) == [i \in 1..Len(events) |-> ReplyNote(events[i])]

\* getReplies, after the fetch
RepliesOf(events) == SortNewestFirst(ReplyNotes(events))

\* the test without its marker: tag[0] === "e" && tag.length > 3
AnyMarkerTag(tag) == Len(tag) > 3 /\ tag[1] = "e"
\* tag[0] === "e" && tag.length > 3 && tag[3] === "reply"
IsReplyTag(tag) == Len(tag) > 0 /\ tag[1] = "e" /\ Len(tag) > 3 /\ tag[4] = "reply"

\* a scan that looks at the first tag only
RepliedIdsOfFirstTag(ev) ==
  IF ev.tags # <<>> /\ IsReplyTag(ev.tags[1]) THEN <<ev.tags[1][2]>> ELSE <<>>
\* the ids pushed to repliedIds for one of our events
RepliedIdsOfEvent(ev) ==
  LET marked == SelectSeq(ev.tags, IsReplyTag)
  IN [i \in 1..Len(marked) |-> marked[i][2]]

RECURSIVE RepliedIds(_)
RepliedIds(ours) ==
  IF ours = <<>> THEN <<>>
  ELSE RepliedIdsOfEvent(ours[1]) \o RepliedIds(SubSeq(ours, 2, Len(ours)))

Includes(s, x) == \E i \in 1..Len(s) : s[i] = x

UnansweredComment(ev, eventId) ==
  [id |-> ev.id, pubkey |-> ev.pubkey, content |-> ev.content,
   created_at |-> ev.created_at, tags |-> ev.tags, rootId |-> eventId]

\* getUnansweredComments, after the fetch
UnansweredOf(events, authorPubkey, eventId) ==
  LET IsOurs(ev) == ev.pubkey = authorPubkey
      IsOthers(ev) == ev.pubkey # authorPubkey
      ourComments == SelectSeq(events, IsOurs)
      othersComments == SelectSeq(events, IsOthers)
      repliedIds == RepliedIds(ourComments)
      NotReplied(ev) == ~Includes(repliedIds, ev.id)
      unrepliedComments == SelectSeq(othersComments, NotReplied)
  IN IF Len(othersComments) = 0 THEN <<>>
     ELSE [i \in 1..Len(unrepliedComments) |->
             UnansweredComment(unrepliedComments[i], eventId)]

\* a scan that does not wait for the early return
ScansAlways(events, authorPubkey) == TRUE
\* getUnansweredComments walks the tags of ourComments only past the early
\* return taken when othersComments is empty
ScansTags(events, authorPubkey) ==
  \E i \in 1..Len(events) : events[i].pubkey # authorPubkey

(***************************************************************************)
(* State.                                                                  *)
(***************************************************************************)
VARIABLES
  mode,          \* "stdio", "sse": a server process; "library": NostrClient used directly
  connected,     \* NostrClient.connected
  startPc,       \* connect(): "new", "connecting", "connected", "failed"
  startErr,      \* what start() has thrown
  attached,      \* a request transport is attached to the MCP server
  stdoutWrite,   \* the function installed as process.stdout.write
  shut,          \* the running shutdown() invocations
  exited,        \* process.exit was called
  exitCode,
  lastDisconnect, \* how the last disconnect() ended: "none", "ok", "threw"
  call,          \* the tool calls and client operations, by slot
  wide,          \* which inputs are drawn from a wide set: "none", "requests", "events", "mentions";
                 \* "overlap": the relays keep what is published
  relay,         \* the relays: the signer's profile and the events published, in order
  written        \* the last write to process.stdout: what was written and where it went

vars ==
  <<mode, connected, startPc, startErr, attached, stdoutWrite, shut, exited, exitCode,
    lastDisconnect, call, wide, relay, written>>

serverVars == <<mode, connected, startPc, startErr, attached, stdoutWrite, shut, exited, exitCode, lastDisconnect>>

Calls == DOMAIN call

(***************************************************************************)
(* Events.                                                                 *)
(***************************************************************************)
NoEvent ==
  [kind |-> -1, content |-> Undef, tags |-> <<>>, id |-> "", pubkey |-> "",
   signed |-> FALSE]

NewEvent(kind, content, tags) ==
  [kind |-> kind, content |-> content, tags |-> tags, id |-> "", pubkey |-> "",
   signed |-> FALSE]

\* event.sign(): the id and the author are set by the signature
Signed(ev, c) == [ev EXCEPT !.id = "id", !.pubkey = Me, !.signed = TRUE]

Fetched(id, pubkey, ts, content, tags) ==
  [id |-> id, pubkey |-> pubkey, created_at |-> ts, content |-> content, tags |-> tags]

(***************************************************************************)
(* Errors.                                                                 *)
(***************************************************************************)
NoErr == [cls |-> "none", code |-> ""]
NostrError(code) == [cls |-> "NostrError", code |-> code]
McpError(code) == [cls |-> "McpError", code |-> code]
PlainError == [cls |-> "Error", code |-> ""]

\* a catch block that rethrows whatever it caught
CatchRethrowsAll(err, code) == err
\* the catch block of every NostrClient operation
CatchInClient(err, code) == IF err.cls = "NostrError" THEN err ELSE NostrError(code)

WrapCode(op) == IF op = "sendZap" THEN "zap_error" ELSE "post_error"

\* a handleError without the NostrError branch
HandleErrorAllFaults(err) ==
  [out |-> "fault", code |-> IF err.cls = "McpError" THEN err.code ELSE "InternalError"]
\* a handleError without the McpError branch
HandleErrorLosesCode(err) ==
  IF err.cls = "NostrError" THEN [out |-> "isError", code |-> err.code]
  ELSE [out |-> "fault", code |-> "InternalError"]
\* NostrStdioServer.handleError: what the tool call ends with
handleError(err) ==
  IF err.cls = "McpError" THEN [out |-> "fault", code |-> err.code]
  ELSE IF err.cls = "NostrError" THEN [out |-> "isError", code |-> err.code]
  ELSE [out |-> "fault", code |-> "InternalError"]

(***************************************************************************)
(* Tool arguments.  A field the caller left out is Undef / NoNum.          *)
(***************************************************************************)
NoArgs ==
  [content |-> Undef, rootId |-> Undef, parentId |-> Undef, eventId |-> Undef,
   authorPubkey |-> Undef, otsProof |-> Undef, nip05Address |-> Undef,
   name |-> Undef, about |-> Undef, display_name |-> Undef,
   limit |-> NoNum, amount |-> NoNum, eventKind |-> NoNum]

ToolNames ==
  {"post_note", "post_comment", "update_profile", "send_zap", "get_replies",
   "get_unanswered_comments", "get_latest_posts", "create_timestamp_attestation"}

\* the safeParse at the head of each handler
SchemaAccepts(name, a) ==
  CASE name = "post_note" -> PostNoteSchema(a)
    [] name = "post_comment" -> PostCommentSchema(a)
    [] name = "update_profile" -> UpdateProfileSchema(a)
    [] name = "send_zap" -> ZapNoteSchema(a)
    [] name = "get_replies" -> GetRepliesSchema(a)
    [] name = "get_unanswered_comments" -> GetUnansweredCommentsSchema(a)
    [] name = "get_latest_posts" -> GetLatestPostsSchema(a)
    [] name = "create_timestamp_attestation" -> CreateTimestampAttestationSchema(a)
    [] OTHER -> FALSE

\* the client operation each handler calls
OpOfTool(name) ==
  CASE name = "post_note" -> "postNote"
    [] name = "post_comment" -> "postComment"
    [] name = "update_profile" -> "updateProfileMetadata"
    [] name = "send_zap" -> "sendZap"
    [] name = "get_replies" -> "getReplies"
    [] name = "get_unanswered_comments" -> "getUnansweredComments"
    [] name = "get_latest_posts" -> "getLatestPosts"
    [] name = "create_timestamp_attestation" -> "createTimestampAttestation"
    [] OTHER -> ""

ClientOps ==
  {"postNote", "postComment", "sendZap", "updateProfileMetadata", "getLatestPosts",
   "createTimestampAttestation", "getReplies", "getUnansweredComments",
   "getUnrepliedMentions"}

(***************************************************************************)
(* NostrClient: each operation up to its first await.                      *)
(***************************************************************************)
NoFilter == [by |-> "", limit |-> NoNum]

\* a validateState() that never throws
ValidateStateNever(conn) == NoErr
\* validateState()
ValidateState(conn) == IF conn THEN NoErr ELSE NostrError("not_connected")

Suspended(pc, what, ev, filter) ==
  [pc |-> pc, log |-> <<what>>, ev |-> ev, filter |-> filter, err |-> NoErr]

Thrown(err) ==
  [pc |-> "done", log |-> <<>>, ev |-> NoEvent, filter |-> NoFilter, err |-> err]

\* parentId without its default
ParentIdAsGiven(a) == a.parentId
\* parentId ?? rootId
ReplyParentId(a) == IF IsAbsent(a.parentId) THEN a.rootId ELSE a.parentId

CommentTags(a) ==
  << <<"e", a.rootId.v, "", "root">>, <<"e", ReplyParentId(a).v, "", "reply">> >>

Digits == <<"0", "1", "2", "3", "4", "5", "6", "7", "8", "9">>

\* eventKind.toString() of a non-negative integer: its decimal digits, the
\* most significant first
RECURSIVE KindString(_)
KindString(n) ==
  IF n < 10 THEN <<Digits[n + 1]>>
  ELSE KindString(n \div 10) \o <<Digits[(n % 10) + 1]>>

\* tags that carry a marker on the "e" tag, as the tags of a comment do
AttestationTagsMarked(a) ==
  << <<"e", a.eventId.v, "", "root">>, <<"k", KindString(a.eventKind.n)>> >>
\* event.tags of createTimestampAttestation
AttestationTags(a) == << <<"e", a.eventId.v, "", "">>, <<"k", KindString(a.eventKind.n)>> >>

\* limit ?? d
OrDefault(limit, d) == IF IsAbsent(limit) THEN Num(d) ELSE limit

\* if (limit) filter.limit = limit
IfTruthy(limit) == IF limit.k = "number" /\ limit.n # 0 THEN limit ELSE NoNum

LatestPostsDefault == 1
MentionsDefault == 10

AfterValidateState(op, a) ==
  CASE op = "postNote" ->
         Suspended("sign", "sign", NewEvent(1, a.content, <<>>), NoFilter)
    [] op = "postComment" ->
         Suspended("sign", "sign", NewEvent(1, a.content, CommentTags(a)), NoFilter)
    [] op = "createTimestampAttestation" ->
         Suspended("sign", "sign", NewEvent(1040, a.otsProof, AttestationTags(a)), NoFilter)
    [] op = "sendZap" -> Suspended("lookup", "lookup", NoEvent, NoFilter)
    [] op = "updateProfileMetadata" -> Suspended("fetchProfile", "fetch", NoEvent, NoFilter)
    [] op = "getLatestPosts" ->
         \* args.authorPubkey ?? this.pubkey, and the empty string is falsy
         IF IsString(a.authorPubkey) /\ a.authorPubkey.v = <<>>
         THEN Thrown(NostrError("post_error"))
         ELSE Suspended("fetch", "fetch", NoEvent,
                        [by |-> "authors", limit |-> OrDefault(a.limit, LatestPostsDefault)])
    [] op = "getReplies" ->
         Suspended("fetch", "fetch", NoEvent, [by |-> "#e", limit |-> IfTruthy(a.limit)])
    [] op = "getUnansweredComments" ->
         Suspended("fetch", "fetch", NoEvent, [by |-> "#e", limit |-> IfTruthy(a.limit)])
    [] op = "getUnrepliedMentions" ->
         Suspended("fetch", "fetch", NoEvent,
                   [by |-> "#p", limit |-> OrDefault(a.limit, MentionsDefault)])

\* the operation from its call to its first await, or to the error it throws
ClientBegin(op, a, conn) ==
  LET st == ValidateState(conn)
      go == IF st # NoErr THEN Thrown(st) ELSE AfterValidateState(op, a)
  IN [go EXCEPT !.log = <<"op", "validateState">> \o go.log,
                !.err = IF go.err = NoErr THEN NoErr
                        ELSE CatchInClient(go.err, WrapCode(op))]

(***************************************************************************)
(* How a call ends.                                                        *)
(***************************************************************************)
\* handleGetReplies, handleGetLatestPosts and handleGetUnansweredComments
\* call content.slice(0, 280) on every record: a TypeError unless it is a string
FormatThrows(name, result) ==
  /\ name \in {"get_replies", "get_latest_posts", "get_unanswered_comments"}
  /\ \E i \in 1..Len(result) : result[i].content.k # "string"

\* the end of a call: the client operation returned result or threw err
Finish(cl, err, result) ==
  IF cl.via = "client"
  THEN [cl EXCEPT !.pc = "done",
                  !.err = err,
                  !.out = IF err = NoErr THEN "result" ELSE "thrown",
                  !.code = err.code,
                  !.result = result]
  ELSE LET e == IF err # NoErr THEN err
                ELSE IF FormatThrows(cl.name, result) THEN PlainError
                ELSE NoErr
       IN IF e = NoErr
          THEN [cl EXCEPT !.pc = "done", !.out = "result", !.result = result]
          ELSE [cl EXCEPT !.pc = "done",
                          !.err = e,
                          !.out = handleError(e).out,
                          !.code = handleError(e).code,
                          !.log = cl.log \o <<"handleError">>]

IdleCall ==
  [pc |-> "idle", via |-> "none", name |-> "", args |-> NoArgs, op |-> "",
   log |-> <<>>, ev |-> NoEvent, filter |-> NoFilter, got |-> <<>>, held |-> <<>>,
   replies |-> <<>>,
   err |-> NoErr, out |-> "none", code |-> "", result |-> <<>>]

\* a call entering the client operation op
EnterClient(cl, op, conn) ==
  LET b == ClientBegin(op, cl.args, conn)
      started == [cl EXCEPT !.op = op, !.pc = b.pc, !.log = cl.log \o b.log,
                            !.ev = b.ev, !.filter = b.filter]
  IN IF b.err = NoErr THEN started ELSE Finish(started, b.err, <<>>)

\* a handler that calls the operation without safeParse
DispatchUnchecked(name, a, conn) ==
  LET cl == [IdleCall EXCEPT !.via = "tool", !.name = name, !.args = a]
  IN IF name \notin ToolNames
     THEN Finish(cl, McpError("MethodNotFound"), <<>>)
     ELSE EnterClient([cl EXCEPT !.log = <<"safeParse">>], OpOfTool(name), conn)
\* a switch whose default branch falls into handlePostNote
DispatchUnknownToDefault(name, a, conn) ==
  LET cl == [IdleCall EXCEPT !.via = "tool", !.name = name, !.args = a]
  IN IF name \notin ToolNames
     THEN EnterClient([cl EXCEPT !.log = <<"safeParse">>], "postNote", conn)
     ELSE IF ~SchemaAccepts(name, a)
     THEN Finish([cl EXCEPT !.log = <<"safeParse">>], McpError("InvalidParams"), <<>>)
     ELSE EnterClient([cl EXCEPT !.log = <<"safeParse">>], OpOfTool(name), conn)
\* the CallToolRequestSchema handler up to the first await
Dispatch(name, a, conn) ==
  LET cl == [IdleCall EXCEPT !.via = "tool", !.name = name, !.args = a]
  IN IF name \notin ToolNames
     THEN Finish(cl, McpError("MethodNotFound"), <<>>)
     ELSE IF ~SchemaAccepts(name, a)
     THEN Finish([cl EXCEPT !.log = <<"safeParse">>], McpError("InvalidParams"), <<>>)
     ELSE EnterClient([cl EXCEPT !.log = <<"safeParse">>], OpOfTool(name), conn)

(***************************************************************************)
(* NostrClient: each operation from one await to the next.                 *)
(***************************************************************************)
\* the record a publishing operation returns
Published(cl) ==
  CASE cl.op = "postComment" ->
         [id |-> cl.ev.id, content |-> cl.ev.content, pubkey |-> cl.ev.pubkey,
          rootId |-> cl.args.rootId, parentId |-> ReplyParentId(cl.args),
          tags |-> cl.ev.tags]
    [] cl.op = "createTimestampAttestation" ->
         [id |-> cl.ev.id, pubkey |-> cl.ev.pubkey, eventId |-> cl.args.eventId,
          eventKind |-> cl.args.eventKind, otsProofLength |-> Len(cl.args.otsProof.v)]
    [] OTHER ->
         [id |-> cl.ev.id, content |-> cl.ev.content, pubkey |-> cl.ev.pubkey]

\* any await that fails inside the try block of the operation
FailInClient(cl) == Finish(cl, CatchInClient(PlainError, WrapCode(cl.op)), <<>>)

\* a sign() that leaves the event as it was drafted
AfterSignKeepsDraft(cl) ==
  [cl EXCEPT !.pc = "publish", !.log = cl.log \o <<"publish">>]
\* await event.sign() returned: publish is called next
AfterSign(cl) ==
  [cl EXCEPT !.ev = Signed(cl.ev, 0), !.pc = "publish", !.log = cl.log \o <<"publish">>]

\* a publish that looks at the connected flag again when it returns
AfterPublishValidates(cl) ==
  IF connected THEN Finish(cl, NoErr, <<Published(cl)>>)
  ELSE Finish(cl, NostrError("not_connected"), <<>>)
\* await event.publish() returned
AfterPublish(cl) == Finish(cl, NoErr, <<Published(cl)>>)

\* getLatestPosts, after the fetch
LatestPostsOf(events) == SortNewestFirst(ReplyNotes(events))

\* getUnrepliedMentions, after the first fetch
MentionsOf(events, authorPubkey) ==
  LET IsOthers(ev) == ev.pubkey # authorPubkey
  IN SelectSeq(events, IsOthers)

UnrepliedMention(ev) ==
  [id |-> ev.id, pubkey |-> ev.pubkey, content |-> ev.content,
   created_at |-> ev.created_at, tags |-> ev.tags]

\* a second stage that forgets the replies
AllMentionsOf(mentions, replyEvents) ==
  SortNewestFirst([i \in 1..Len(mentions) |-> UnrepliedMention(mentions[i])])
\* getUnrepliedMentions, after the second fetch
UnrepliedMentionsOf(mentions, replyEvents) ==
  LET mentionIdSet == {mentions[i].id : i \in 1..Len(mentions)}
      allTags ==
        UNION {{replyEvents[i].tags[j] : j \in 1..Len(replyEvents[i].tags)} :
                 i \in 1..Len(replyEvents)}
      Counts(tag) ==
        /\ Len(tag) > 3
        /\ tag[1] = "e"
        /\ tag[2] # ""
        /\ tag[2] \in mentionIdSet
        /\ tag[4] = "reply"
      repliedIds == {tag[2] : tag \in {t \in allTags : Counts(t)}}
      NotReplied(ev) == ev.id \notin repliedIds
      unreplied == SelectSeq(mentions, NotReplied)
  IN SortNewestFirst([i \in 1..Len(unreplied) |-> UnrepliedMention(unreplied[i])])

\* await fetchEvents(filter) returned events
AfterFetch(cl, events) ==
  CASE cl.op = "getReplies" -> Finish(cl, NoErr, RepliesOf(events))
    [] cl.op = "getLatestPosts" -> Finish(cl, NoErr, LatestPostsOf(events))
    [] cl.op = "getUnansweredComments" ->
         Finish([cl EXCEPT !.log = cl.log \o (IF ScansTags(events, Me)
                                                THEN <<"scanTags">> ELSE <<>>)],
                NoErr, UnansweredOf(events, Me, cl.args.eventId))
    [] cl.op = "getUnrepliedMentions" ->
         IF Len(MentionsOf(events, Me)) = 0 THEN Finish(cl, NoErr, <<>>)
         ELSE [cl EXCEPT !.pc = "fetchReplies", !.held = MentionsOf(events, Me),
                         !.log = cl.log \o <<"fetch">>]

\* await fetchEvents(replyFilter) returned
AfterFetchReplies(cl, events) == Finish(cl, NoErr, UnrepliedMentionsOf(cl.held, events))

\* a profile is the sequence of its <<key, value>> pairs, in key order;
\* JSON.stringify writes the pairs in that order
ProfileKeys == <<"name", "about", "display_name">>

HasKey(obj, key) == \E i \in 1..Len(obj) : obj[i][1] = key

ValueOf(obj, key) == obj[CHOOSE i \in 1..Len(obj) : obj[i][1] = key][2]

\* the fields of the arguments that zod kept
MetadataOf(a) ==
  LET Given(key) ==
        CASE key = "name" -> a.name
          [] key = "about" -> a.about
          [] key = "display_name" -> a.display_name
      IsGiven(key) == ~IsAbsent(Given(key))
      keys == SelectSeq(ProfileKeys, IsGiven)
  IN [i \in 1..Len(keys) |-> <<keys[i], Given(keys[i]).v>>]

\* delete existingMetadata.created_at; delete existingMetadata.profileEvent
WithoutInternal(obj) ==
  LET Kept(pair) == pair[1] \notin {"created_at", "profileEvent"}
  IN SelectSeq(obj, Kept)

\* a merge in which the existing value wins: { ...metadata, ...existingMetadata }
SpreadExistingWins(base, over) ==
  LET New(pair) == ~HasKey(over, pair[1])
  IN [i \in 1..Len(over) |->
        IF HasKey(base, over[i][1]) THEN <<over[i][1], ValueOf(base, over[i][1])>>
        ELSE over[i]]
     \o SelectSeq(base, New)
\* { ...existingMetadata, ...metadata }: a key keeps its first position and
\* takes the last value
Spread(base, over) ==
  LET New(pair) == ~HasKey(base, pair[1])
  IN [i \in 1..Len(base) |->
        IF HasKey(over, base[i][1]) THEN <<base[i][1], ValueOf(over, base[i][1])>>
        ELSE base[i]]
     \o SelectSeq(over, New)

\* await fetchProfile() returned existing (<<>> when it returned null or threw)
AfterFetchProfile(cl, existing) ==
  LET mergedMetadata == Spread(WithoutInternal(existing), MetadataOf(cl.args))
  IN [cl EXCEPT !.ev = NewEvent(0, [k |-> "string", v |-> mergedMetadata], <<>>),
                !.pc = "sign", !.log = cl.log \o <<"sign">>]

\* await getUserFromNip05() returned a recipient
AfterLookup(cl) == [cl EXCEPT !.pc = "zap", !.log = cl.log \o <<"zap">>]

\* await zapper.zap() returned
AfterZap(cl) ==
  Finish(cl, NoErr,
         <<[recipientPubkey |-> "recipient", amount |-> cl.args.amount, invoice |-> ""]>>)

(***************************************************************************)
(* Inputs.                                                                 *)
(***************************************************************************)
Text == <<"h", "i">>

GoodId == Rep("a", IdLen)
OtherId == Rep("b", IdLen)
UpperId == Rep("F", IdLen)
ShortId == Rep("a", IdLen - 1)
LongId == Rep("a", IdLen + 1)
NonHexId == [i \in 1..IdLen |-> IF i = IdLen THEN "g" ELSE "a"]

\* a good id with its i-th character replaced
Spoiled(i, ch) == [GoodId EXCEPT ![i] = ch]

IdStrings ==
  {Rep(ch, n) : ch \in {"a", "F", "0"}, n \in {0, 1, IdLen - 1, IdLen, IdLen + 1}}
  \cup {Spoiled(i, ch) : i \in {1, 2, IdLen - 1, IdLen},
                         ch \in {"g", "G", "x", " ", "-", "B", "7"}}

IdValues == {Str(x) : x \in IdStrings} \cup {Undef, NotAString}

ArgsOfTool(name, x) ==
  CASE name = "post_note" -> [NoArgs EXCEPT !.content = x]
    [] name = "update_profile" -> [NoArgs EXCEPT !.name = x]
    [] name = "send_zap" -> [NoArgs EXCEPT !.nip05Address = x, !.amount = Num(1)]
    [] name = "post_comment" -> [NoArgs EXCEPT !.content = Str(Text), !.rootId = x]
    [] name = "get_latest_posts" -> [NoArgs EXCEPT !.authorPubkey = x]
    [] name = "create_timestamp_attestation" ->
         [NoArgs EXCEPT !.eventId = x, !.eventKind = Num(1), !.otsProof = Str(Text)]
    [] OTHER -> [NoArgs EXCEPT !.eventId = x]

Input(name, x) == [name |-> name, args |-> ArgsOfTool(name, x)]

\* the requests of the process model: for each tool one that passes its
\* schema and one that does not, and a tool that is not registered
ToolPool ==
  {Input(n, Str(Text)) : n \in {"post_note", "update_profile", "send_zap"}}
  \cup {Input("post_note", Str(<<>>))}
  \cup {Input(n, Str(GoodId)) : n \in ToolNames \ {"post_note", "update_profile", "send_zap"}}
  \cup {Input("get_replies", Str(ShortId))}
  \cup {Input("no_such_tool", Undef)}

\* update_profile with each combination of name, about and display_name
ProfileInputs ==
  {[name |-> "update_profile",
    args |-> [NoArgs EXCEPT !.name = n, !.about = a, !.display_name = d]] :
     n \in {Undef, Str(<<"B">>)}, a \in {Undef, Str(<<"Y">>)}, d \in {Undef, Str(<<>>)}}

\* the limits a request may carry
Limits == {Num(-1), Num(0), Num(1), Num(2), Num(500), Num(501), Num(1000), Frac(2)}

\* get_replies, get_unanswered_comments and get_latest_posts with a limit
RangeInputs ==
  {[name |-> n, args |-> [NoArgs EXCEPT !.eventId = Str(GoodId), !.limit = l]] :
     n \in {"get_replies", "get_unanswered_comments"}, l \in Limits}
  \cup {[name |-> "get_latest_posts", args |-> [NoArgs EXCEPT !.limit = l]] : l \in Limits}

\* create_timestamp_attestation with each kind
AttestationInputs ==
  {[name |-> "create_timestamp_attestation",
    args |-> [NoArgs EXCEPT !.eventId = Str(GoodId), !.eventKind = k,
                            !.otsProof = Str(proof)]] :
     k \in {Num(-1), Num(0), Num(1), Num(10), Num(1040), Num(65535), Num(65536),
            Frac(1), NoNum},
     proof \in {Text, <<"0", "0", " ">>}}

\* the requests of the input model
WideToolInputs ==
  {Input(n, x) : n \in {"post_note", "update_profile", "send_zap"},
                 x \in {Str(Text), Str(<<>>), Undef, NotAString}}
  \cup {Input(n, x) : n \in ToolNames \ {"post_note", "update_profile", "send_zap"},
                      x \in IdValues}
  \cup {[name |-> "post_comment",
         args |-> [NoArgs EXCEPT !.content = Str(Text), !.rootId = Str(GoodId),
                                 !.parentId = x]] : x \in IdValues}
  \cup {[name |-> "send_zap",
         args |-> [NoArgs EXCEPT !.nip05Address = Str(Text), !.amount = x]] :
          x \in {Num(0), Frac(1), NoNum}}
  \cup {Input(n, Undef) : n \in {"no_such_tool", "get_unreplied_mentions", ""}}
  \cup ProfileInputs
  \cup RangeInputs
  \cup AttestationInputs

\* get_unanswered_comments with a limit
LimitedInputs ==
  {[name |-> "get_unanswered_comments",
    args |-> [NoArgs EXCEPT !.eventId = Str(GoodId), !.limit = Num(n)]] : n \in {1, 2}}

ToolInputs ==
  CASE wide = "requests" -> WideToolInputs
    [] wide = "events" -> ToolPool \cup LimitedInputs
    [] OTHER -> ToolPool

\* the requests of the overlap model
OverlapInputs ==
  {Input("post_note", Str(Text)),
   [name |-> "update_profile", args |-> [NoArgs EXCEPT !.name = Str(<<"B">>)]],
   [name |-> "update_profile", args |-> [NoArgs EXCEPT !.about = Str(<<"Y">>)]],
   [name |-> "post_comment",
    args |-> [NoArgs EXCEPT !.content = Str(Text), !.rootId = Str(GoodId)]]}

\* direct calls of the client, as a program importing NostrClient makes them
ClientInputs ==
  {[op |-> "postNote", args |-> [NoArgs EXCEPT !.content = Str(Text)]],
   [op |-> "postComment",
    args |-> [NoArgs EXCEPT !.content = Str(Text), !.rootId = Str(GoodId)]],
   [op |-> "sendZap",
    args |-> [NoArgs EXCEPT !.nip05Address = Str(Text), !.amount = Num(1)]],
   [op |-> "updateProfileMetadata", args |-> [NoArgs EXCEPT !.name = Str(Text)]],
   [op |-> "getLatestPosts", args |-> NoArgs],
   [op |-> "getLatestPosts", args |-> [NoArgs EXCEPT !.authorPubkey = Str(<<>>)]],
   [op |-> "createTimestampAttestation",
    args |-> [NoArgs EXCEPT !.eventId = Str(GoodId), !.eventKind = Num(1),
                            !.otsProof = Str(Text)]],
   [op |-> "getReplies", args |-> [NoArgs EXCEPT !.eventId = Str(GoodId)]],
   [op |-> "getUnansweredComments", args |-> [NoArgs EXCEPT !.eventId = Str(GoodId)]],
   [op |-> "getUnrepliedMentions", args |-> NoArgs]}

EventIds == {"c1", "c2", "c3"}

ReplyTo(x) == <<"e", x, "", "reply">>
RootOf(x) == <<"e", x, "", "root">>

\* the few fetch results of the process model
FetchPool ==
  {<<>>,
   <<Fetched("c1", "other", Num(1), Str(Text), <<RootOf("c0")>>),
     Fetched("c2", "other", Num(2), Str(Text), <<RootOf("c0")>>),
     Fetched("c3", Me, Num(3), Str(Text), <<RootOf("c0"), ReplyTo("c2")>>)>>,
   <<Fetched("c1", "other", NoNum, Undef, <<>>)>>}

TagsOn(x) ==
  {ReplyTo(x), RootOf(x), <<"e", x, "">>, <<"e", x, "", "reply", "pk">>,
   <<"p", x, "", "reply">>}

SignerTagLists ==
  {<<>>}
  \cup {<<t>> : t \in UNION {TagsOn(x) : x \in EventIds}}
  \cup {<<RootOf("c0"), t>> :
          t \in UNION {{ReplyTo(x), <<"e", x, "", "reply", "pk">>} : x \in EventIds}}

Timestamps == {NoNum, Num(1), Num(2)}

\* the events a fetch for operation op may return, by id
WideEvents(op, id) ==
  IF op \in {"getReplies", "getLatestPosts"}
  THEN {Fetched(id, pk, ts, Str(Text), <<>>) : pk \in {Me, "other"}, ts \in Timestamps}
  ELSE {Fetched(id, "other", ts, Str(Text), tags) :
          ts \in Timestamps, tags \in {<<>>, <<ReplyTo("c1")>>}}
       \cup {Fetched(id, Me, Num(2), Str(Text), tags) : tags \in SignerTagLists}

WideEventsOf(op) == UNION {WideEvents(op, id) : id \in EventIds}

\* the events a fetch with a limit may return: every relay of the pool
\* answers the filter on its own and the answers are merged, so the merged
\* set may hold more events than the limit
LimitedEvents ==
  {Fetched(id, pk, ts, Str(Text), <<>>) :
     id \in EventIds, pk \in {Me, "other"}, ts \in {Num(1), Num(2)}}

\* the events a fetch by "#p" may return: they carry a "p" tag of the signer
MentionEvents ==
  {Fetched(id, pk, ts, Str(Text), << <<"p", Me>> >>) :
     id \in EventIds, pk \in {Me, "other"}, ts \in Timestamps}

\* the events the fetch of call cl may return
EventsFor(cl) ==
  CASE cl.op = "getUnansweredComments" /\ cl.args.limit.k = "number" -> LimitedEvents
    [] cl.op = "getUnrepliedMentions" -> MentionEvents
    [] OTHER -> WideEventsOf(cl.op)

ReplyIds == {"r1", "r2"}

\* the tag lists of the signer's replies
ReplyTagLists ==
  {<<>>}
  \cup {<<t>> : t \in UNION {TagsOn(x) : x \in {"c1", "c2"}}}
  \cup {<<RootOf("c1"), ReplyTo(x)>> : x \in {"c1", "c2"}}

\* the events the fetch by authors and "#e" may return: events of the signer
ReplyEvents ==
  {Fetched(id, Me, Num(3), Str(Text), tags) : id \in ReplyIds, tags \in ReplyTagLists}

\* direct calls of getUnrepliedMentions
MentionInputs ==
  {[op |-> "getUnrepliedMentions", args |-> [NoArgs EXCEPT !.limit = l]] :
     l \in {NoNum, Num(2)}}

DistinctIds(events) ==
  \A i, j \in 1..Len(events) : events[i].id = events[j].id => i = j

ProfilePool ==
  {<<>>,
   << <<"name", <<"A">> >>, <<"about", <<"X">> >>, <<"created_at", <<"1">> >> >>}

\* the profiles fetchProfile may return in the input model
WideProfiles ==
  {<< <<"name", <<"A">> >>, <<"about", <<"X">> >> >>,
   << <<"about", <<"X">> >>, <<"name", <<"A">> >> >>,
   << <<"picture", <<"P">> >>, <<"display_name", <<"D">> >> >>,
   << <<"name", <<"A">> >>, <<"created_at", <<"1">> >>, <<"profileEvent", <<"{}">> >> >>,
   << <<"lud16", <<"L">> >> >>}

\* relays whose contents the model leaves open
NoRelay == [profile |-> <<>>, published |-> <<>>]

\* the profile the relays hold before the first call of the overlap model
FirstProfile == << <<"name", <<"A">> >>, <<"picture", <<"P">> >> >>

\* what fetchProfile() may return: in the overlap model the metadata of the
\* newest kind 0 event of the signer
Profiles ==
  CASE wide = "requests" -> WideProfiles
    [] wide = "overlap" -> {relay.profile}
    [] OTHER -> ProfilePool \ {<<>>}

(***************************************************************************)
(* process.stdout.write.                                                   *)
(***************************************************************************)
\* the write of the stream, and the customWrite of the stdio server
OriginalWrite == [fn |-> "original", bound |-> FALSE]
CustomWrite == [fn |-> "custom", bound |-> FALSE]

\* the marker "jsonrpc":"2.0" with its quotes
Marker ==
  <<"\"", "j", "s", "o", "n", "r", "p", "c", "\"", ":", "\"", "2", ".",
    "0", "\"">>

\* str.includes(sub)
StrIncludes(str, sub) ==
  \E i \in 0..(Len(str) - Len(sub)) : SubSeq(str, i + 1, i + Len(sub)) = sub

\* customWrite: a string with the marker goes to stdout, all else to stderr
CustomDestination(x) ==
  IF IsString(x) /\ StrIncludes(x.v, Marker) THEN "stdout" ELSE "stderr"

\* where process.stdout.write(x) sends x when w is installed
Destination(w, x) == IF w.fn = "custom" THEN CustomDestination(x) ELSE "stdout"

\* this.originalStdout.write.bind(this.originalStdout): originalStdout is
\* process.stdout itself, so its write is the function installed at the
\* time of the call, and bind keeps what the function does
Restored(w) == [w EXCEPT !.bound = TRUE]

\* a JSON-RPC response, the same with a space after the colon, and a log line
Response ==
  <<"{", "\"", "j", "s", "o", "n", "r", "p", "c", "\"", ":", "\"", "2",
    ".", "0", "\"", ",", "\"", "i", "d", "\"", ":", "1", "}">>
Spaced ==
  <<"{", "\"", "j", "s", "o", "n", "r", "p", "c", "\"", ":", " ", "\"",
    "2", ".", "0", "\"", "}">>
LogLine == <<"o", "k">>

\* what is written: strings, and a Uint8Array holding a response
Writes ==
  {Str(Response), Str(Spaced), Str(LogLine), [k |-> "bytes", v |-> Response]}

NoWrite == [what |-> Undef, to |-> "none", restored |-> FALSE]

(***************************************************************************)
(* The process: construction, start(), shutdown().                         *)
(***************************************************************************)
Shutdowns == 1..MaxShutdowns

\* code is the argument of shutdown(code); steps are the calls it has made
IdleShutdown == [pc |-> "idle", code |-> 0, steps |-> <<>>]

Init ==
  /\ mode \in {"stdio", "sse", "library"}
  /\ connected = FALSE
  /\ startPc = "new"
  /\ startErr = NoErr
  /\ attached = FALSE
  /\ stdoutWrite = IF mode = "stdio" THEN CustomWrite ELSE OriginalWrite
  /\ shut = [s \in Shutdowns |-> IdleShutdown]
  /\ exited = FALSE
  /\ exitCode = 0
  /\ lastDisconnect = "none"
  /\ call = [c \in 1..MaxCalls |-> IdleCall]
  /\ wide = "none"
  /\ relay = NoRelay
  /\ written = NoWrite

IsServer == mode \in {"stdio", "sse"}

\* the catch block of connect(): whatever was caught, a ConnectionError
CatchInConnect(err) == NostrError("connection_error")

\* a start() that attaches the transport before it connects
StartAttaching ==
  /\ ~exited
  /\ startPc = "new"
  /\ startPc' = "connecting"
  /\ attached' = IF mode = "stdio" THEN TRUE ELSE attached
  /\ UNCHANGED <<mode, connected, startErr, stdoutWrite, shut, exited, exitCode,
                 lastDisconnect, call, wide, relay, written>>
\* start() / connect() up to await this.ndk.connect()
Start ==
  /\ ~exited
  /\ startPc = "new"
  /\ startPc' = "connecting"
  /\ UNCHANGED <<mode, connected, startErr, attached, stdoutWrite, shut, exited, exitCode,
                 lastDisconnect, call, wide, relay, written>>

\* ndk.connect() resolved; in stdio mode start() then attaches the transport
ConnectOk ==
  /\ ~exited
  /\ startPc = "connecting"
  /\ startPc' = "connected"
  /\ connected' = TRUE
  /\ attached' = IF mode = "stdio" THEN TRUE ELSE attached
  /\ UNCHANGED <<mode, startErr, stdoutWrite, shut, exited, exitCode, lastDisconnect, call,
                 wide, relay, written>>

\* ndk.connect() rejected: connect() throws ConnectionError, and main() of a
\* server process exits with code 1
ConnectFail ==
  /\ ~exited
  /\ startPc = "connecting"
  /\ startPc' = "failed"
  /\ startErr' = CatchInConnect(PlainError)
  /\ connected' = FALSE
  /\ exited' = IsServer
  /\ exitCode' = IF IsServer THEN 1 ELSE exitCode
  /\ UNCHANGED <<mode, attached, stdoutWrite, shut, lastDisconnect, call, wide, relay, written>>

\* GET /sse: the SSE server attaches a transport whenever a client asks
SseAttach ==
  /\ ~exited
  /\ mode = "sse"
  /\ startPc # "new"
  /\ ~attached
  /\ attached' = TRUE
  /\ UNCHANGED <<mode, connected, startPc, startErr, stdoutWrite, shut, exited, exitCode,
                 lastDisconnect, call, wide, relay, written>>

\* the calls and shutdowns begun so far
Active ==
  Cardinality({c \in DOMAIN call : call[c].pc # "idle"})
  + Cardinality({s \in DOMAIN shut : shut[s].pc # "idle"})

\* a slot is taken only when the one before it is
Free(c) == Active < MaxActive /\ call[c].pc = "idle" /\ (IF c = 1 THEN TRUE ELSE call[c - 1].pc # "idle")

\* a tools/call request arrives: the handler runs to its first await
CallTool(c, in) ==
  /\ ~exited
  /\ IsServer
  /\ attached
  /\ Free(c)
  /\ call' = [call EXCEPT ![c] = Dispatch(in.name, in.args, connected)]
  /\ UNCHANGED <<serverVars, wide, relay, written>>

\* a program calls an operation of NostrClient
CallClient(c, in) ==
  /\ mode = "library"
  /\ Free(c)
  /\ call' = [call EXCEPT ![c] =
                EnterClient([IdleCall EXCEPT !.via = "client", !.name = in.op,
                                             !.args = in.args],
                            in.op, connected)]
  /\ UNCHANGED <<serverVars, wide, relay, written>>

Resume(c, pc, next) ==
  /\ ~exited
  /\ call[c].pc = pc
  /\ call' = [call EXCEPT ![c] = next]
  /\ UNCHANGED <<serverVars, wide, relay, written>>

SignOk(c) == Resume(c, "sign", AfterSign(call[c]))
SignFail(c) == Resume(c, "sign", FailInClient(call[c]))

\* relays that keep one event per id and content
StoredDeduplicated(r, ev) ==
  IF \E i \in 1..Len(r.published) : r.published[i] = ev THEN r
  ELSE [profile |-> IF ev.kind = 0 THEN ev.content.v ELSE r.profile,
        published |-> Append(r.published, ev)]
\* the relays after event.publish(): the event is one more event, and a
\* kind 0 event replaces the profile
StoredOn(r, ev) ==
  [profile |-> IF ev.kind = 0 THEN ev.content.v ELSE r.profile,
   published |-> Append(r.published, ev)]

\* event.publish() resolved
PublishOk(c) ==
  /\ ~exited
  /\ call[c].pc = "publish"
  /\ call' = [call EXCEPT ![c] = AfterPublish(call[c])]
  /\ relay' = IF wide = "overlap" THEN StoredOn(relay, call[c].ev) ELSE relay
  /\ UNCHANGED <<serverVars, wide, written>>
PublishFail(c) == Resume(c, "publish", FailInClient(call[c]))

\* fetchEvents(filter) resolved: some sequence of events with distinct ids
FetchOk(c) ==
  /\ call[c].pc = "fetch"
  /\ IF wide \in {"events", "mentions"}
     THEN \E n \in 0..MaxFetched :
            \E events \in [1..n -> EventsFor(call[c])] :
              /\ DistinctIds(events)
              /\ Resume(c, "fetch", AfterFetch([call[c] EXCEPT !.got = events], events))
     ELSE \E events \in FetchPool :
            Resume(c, "fetch", AfterFetch([call[c] EXCEPT !.got = events], events))
FetchFail(c) == Resume(c, "fetch", FailInClient(call[c]))

\* fetchEvents(replyFilter) resolved
FetchRepliesOk(c) ==
  /\ call[c].pc = "fetchReplies"
  /\ IF wide = "mentions"
     THEN \E n \in {k \in 0..MaxFetched : k <= Cardinality(ReplyIds)} :
            \E events \in [1..n -> ReplyEvents] :
              /\ DistinctIds(events)
              /\ Resume(c, "fetchReplies",
                        AfterFetchReplies([call[c] EXCEPT !.replies = events], events))
     ELSE \E events \in FetchPool :
            Resume(c, "fetchReplies",
                   AfterFetchReplies([call[c] EXCEPT !.replies = events], events))
FetchRepliesFail(c) == Resume(c, "fetchReplies", FailInClient(call[c]))

\* fetchProfile() returned a profile
FetchProfileFound(c) ==
  /\ call[c].pc = "fetchProfile"
  /\ \E existing \in Profiles :
       Resume(c, "fetchProfile", AfterFetchProfile([call[c] EXCEPT !.got = existing], existing))
\* fetchProfile() returned null
FetchProfileNone(c) == Resume(c, "fetchProfile", AfterFetchProfile(call[c], <<>>))
\* a fetchProfile() failure that is not caught inside
FetchProfileThrowsOut(c) == Resume(c, "fetchProfile", FailInClient(call[c]))
\* fetchProfile() threw: the inner catch logs a warning and goes on
FetchProfileThrows(c) ==
  Resume(c, "fetchProfile",
         AfterFetchProfile([call[c] EXCEPT !.log = call[c].log \o <<"warn">>], <<>>))

\* getUserFromNip05() returned a user
LookupOk(c) == Resume(c, "lookup", AfterLookup(call[c]))
\* getUserFromNip05() threw
LookupFail(c) == Resume(c, "lookup", FailInClient(call[c]))
\* getUserFromNip05() returned nothing: if (!recipient) throw new Error(...)
LookupNone(c) ==
  Resume(c, "lookup", FailInClient([call[c] EXCEPT !.log = call[c].log \o <<"noRecipient">>]))
ZapOk(c) == Resume(c, "zap", AfterZap(call[c]))
ZapFail(c) == Resume(c, "zap", FailInClient(call[c]))

\* a disconnect() that clears the flag before it walks the relays
AfterDisconnectAlwaysOff(conn, ok) == FALSE
\* the connected flag after disconnect(): this.connected = false is reached
\* only when no relay.disconnect() threw
AfterDisconnect(conn, ok) == IF ok THEN FALSE ELSE conn

\* disconnect() called by a program importing the client
ClientDisconnect(ok) ==
  /\ mode = "library"
  /\ connected' = AfterDisconnect(connected, ok)
  /\ lastDisconnect' = IF ok THEN "ok" ELSE "threw"
  /\ UNCHANGED <<mode, startPc, startErr, attached, stdoutWrite, shut, exited, exitCode, call, wide, relay, written>>

Signals == {"SIGINT", "SIGTERM"}
Faults == {"uncaughtException", "unhandledRejection"}

\* an exit that always takes the code shutdown() was called with
ExitCodeAsAsked(code, ok) == code
\* process.exit(code) at the end of the try block, process.exit(1) in the
\* catch block
ExitCodeOf(code, ok) == IF ok THEN code ELSE 1

ExitStep(code) == IF code = 0 THEN "exit(0)" ELSE "exit(1)"

\* the steps of shutdown() up to the await of disconnect(): the stdio server
\* restores process.stdout.write first
FirstSteps == IF mode = "stdio" THEN <<"restore", "disconnect">> ELSE <<"disconnect">>

\* a signal or a process-wide fault: shutdown(code) runs up to the await of
\* disconnect(), whose body is synchronous
Trigger(s, kind, ok) ==
  /\ ~exited
  /\ IsServer
  /\ startPc # "new"
  /\ Active < MaxActive
  /\ shut[s].pc = "idle"
  /\ (IF s = 1 THEN TRUE ELSE shut[s - 1].pc # "idle")
  /\ stdoutWrite' = IF mode = "stdio" THEN Restored(stdoutWrite) ELSE stdoutWrite
  /\ connected' = AfterDisconnect(connected, ok)
  /\ LET code == IF kind \in Signals THEN 0 ELSE 1
     IN IF ok
        THEN /\ lastDisconnect' = "ok"
             /\ shut' = [shut EXCEPT ![s] =
                           [pc |-> "disconnected", code |-> code, steps |-> FirstSteps]]
             /\ UNCHANGED <<exited, exitCode>>
        ELSE /\ shut' = [shut EXCEPT ![s] =
                           [pc |-> "done", code |-> code,
                            steps |-> FirstSteps
                                      \o <<"threw", ExitStep(ExitCodeOf(code, FALSE))>>]]
             /\ exited' = TRUE
             /\ exitCode' = ExitCodeOf(code, FALSE)
             /\ lastDisconnect' = "threw"
  /\ UNCHANGED <<mode, startPc, startErr, attached, call, wide, relay, written>>

\* process.exit(code), after the steps given
Exit(s, steps, code) ==
  /\ shut' = [shut EXCEPT ![s].pc = "done",
                          ![s].steps = shut[s].steps \o steps \o <<ExitStep(code)>>]
  /\ exited' = TRUE
  /\ exitCode' = code

\* after await disconnect(): server.close() is called (the SSE server calls
\* it only when it has a transport)
Close(s) ==
  /\ ~exited
  /\ shut[s].pc = "disconnected"
  /\ IF mode = "stdio" \/ attached
     THEN /\ shut' = [shut EXCEPT ![s].pc = "closing",
                                   ![s].steps = shut[s].steps \o <<"close">>]
          /\ attached' = FALSE
          /\ UNCHANGED <<exited, exitCode>>
     ELSE /\ Exit(s, <<>>, ExitCodeOf(shut[s].code, TRUE))
          /\ UNCHANGED attached
  /\ UNCHANGED <<mode, connected, startPc, startErr, stdoutWrite, lastDisconnect, call, wide, relay, written>>

\* server.close() resolved or rejected
CloseDone(s, ok) ==
  /\ ~exited
  /\ shut[s].pc = "closing"
  /\ Exit(s, IF ok THEN <<>> ELSE <<"threw">>, ExitCodeOf(shut[s].code, ok))
  /\ UNCHANGED <<mode, connected, startPc, startErr, attached, stdoutWrite, lastDisconnect, call, wide, relay, written>>

\* something is written to process.stdout
Write(x) ==
  /\ ~exited
  /\ IsServer
  /\ written' = [what |-> x, to |-> Destination(stdoutWrite, x),
                 restored |-> \E s \in DOMAIN shut : shut[s].pc # "idle"]
  /\ UNCHANGED <<serverVars, call, wide, relay>>

Next ==
  \/ Start
  \/ ConnectOk
  \/ ConnectFail
  \/ SseAttach
  \/ \E c \in Calls, in \in ToolInputs : CallTool(c, in)
  \/ \E c \in Calls, in \in ClientInputs : CallClient(c, in)
  \/ \E c \in Calls : SignOk(c)
  \/ \E c \in Calls : SignFail(c)
  \/ \E c \in Calls : PublishOk(c)
  \/ \E c \in Calls : PublishFail(c)
  \/ \E c \in Calls : FetchOk(c)
  \/ \E c \in Calls : FetchFail(c)
  \/ \E c \in Calls : FetchRepliesOk(c)
  \/ \E c \in Calls : FetchRepliesFail(c)
  \/ \E c \in Calls : FetchProfileFound(c)
  \/ \E c \in Calls : FetchProfileNone(c)
  \/ \E c \in Calls : FetchProfileThrows(c)
  \/ \E c \in Calls : LookupOk(c)
  \/ \E c \in Calls : LookupFail(c)
  \/ \E c \in Calls : LookupNone(c)
  \/ \E c \in Calls : ZapOk(c)
  \/ \E c \in Calls : ZapFail(c)
  \/ \E ok \in BOOLEAN : ClientDisconnect(ok)
  \/ \E s \in Shutdowns, kind \in Signals \cup Faults, ok \in BOOLEAN : Trigger(s, kind, ok)
  \/ \E s \in Shutdowns : Close(s)
  \/ \E s \in Shutdowns, ok \in BOOLEAN : CloseDone(s, ok)

Spec == Init /\ [][Next]_vars

(***************************************************************************)
(* The input model: a connected stdio server that takes one request out of *)
(* a wide set of requests, and whose fetch returns one out of a wide set   *)
(* of results.                                                             *)
(***************************************************************************)
InitWide ==
  /\ mode = "stdio"
  /\ connected = TRUE
  /\ startPc = "connected"
  /\ startErr = NoErr
  /\ attached = TRUE
  /\ stdoutWrite = CustomWrite
  /\ shut = [s \in Shutdowns |-> IdleShutdown]
  /\ exited = FALSE
  /\ exitCode = 0
  /\ lastDisconnect = "none"
  /\ call = [c \in {1} |-> IdleCall]
  /\ wide \in {"requests", "events"}
  /\ relay = NoRelay
  /\ written = NoWrite

NextWide ==
  \/ \E c \in Calls, in \in ToolInputs : CallTool(c, in)
  \/ \E c \in Calls : SignOk(c)
  \/ \E c \in Calls : SignFail(c)
  \/ \E c \in Calls : PublishOk(c)
  \/ \E c \in Calls : PublishFail(c)
  \/ \E c \in Calls : FetchOk(c)
  \/ \E c \in Calls : FetchFail(c)
  \/ \E c \in Calls : FetchProfileFound(c)
  \/ \E c \in Calls : FetchProfileNone(c)
  \/ \E c \in Calls : FetchProfileThrows(c)
  \/ \E c \in Calls : LookupOk(c)
  \/ \E c \in Calls : LookupFail(c)
  \/ \E c \in Calls : LookupNone(c)
  \/ \E c \in Calls : ZapOk(c)
  \/ \E c \in Calls : ZapFail(c)

SpecWide == InitWide /\ [][NextWide]_vars

(***************************************************************************)
(* The mentions model: a connected client whose getUnrepliedMentions is    *)
(* called once, each of its two fetches returning one out of a wide set of *)
(* results.                                                                *)
(***************************************************************************)
InitMentions ==
  /\ mode = "library"
  /\ connected = TRUE
  /\ startPc = "connected"
  /\ startErr = NoErr
  /\ attached = FALSE
  /\ stdoutWrite = OriginalWrite
  /\ shut = [s \in Shutdowns |-> IdleShutdown]
  /\ exited = FALSE
  /\ exitCode = 0
  /\ lastDisconnect = "none"
  /\ call = [c \in {1} |-> IdleCall]
  /\ wide = "mentions"
  /\ relay = NoRelay
  /\ written = NoWrite

NextMentions ==
  \/ \E c \in Calls, in \in MentionInputs : CallClient(c, in)
  \/ \E c \in Calls : FetchOk(c)
  \/ \E c \in Calls : FetchFail(c)
  \/ \E c \in Calls : FetchRepliesOk(c)
  \/ \E c \in Calls : FetchRepliesFail(c)

SpecMentions == InitMentions /\ [][NextMentions]_vars

(***************************************************************************)
(* The overlap model: a connected stdio server that takes several requests *)
(* at once, on relays that keep what is published.                         *)
(***************************************************************************)
InitOverlap ==
  /\ mode = "stdio"
  /\ connected = TRUE
  /\ startPc = "connected"
  /\ startErr = NoErr
  /\ attached = TRUE
  /\ stdoutWrite = CustomWrite
  /\ shut = [s \in Shutdowns |-> IdleShutdown]
  /\ exited = FALSE
  /\ exitCode = 0
  /\ lastDisconnect = "none"
  /\ call = [c \in 1..MaxCalls |-> IdleCall]
  /\ wide = "overlap"
  /\ relay = [profile |-> FirstProfile, published |-> <<>>]
  /\ written = NoWrite

NextOverlap ==
  \/ \E c \in Calls, in \in OverlapInputs : CallTool(c, in)
  \/ \E c \in Calls : SignOk(c)
  \/ \E c \in Calls : SignFail(c)
  \/ \E c \in Calls : PublishOk(c)
  \/ \E c \in Calls : PublishFail(c)
  \/ \E c \in Calls : FetchProfileFound(c)

SpecOverlap == InitOverlap /\ [][NextOverlap]_vars

(***************************************************************************)
(* The stdout model: a server process that starts, writes to stdout and    *)
(* shuts down, without tool calls.                                         *)
(***************************************************************************)
InitStdout ==
  /\ Init
  /\ IsServer

NextStdout ==
  \/ Start
  \/ ConnectOk
  \/ ConnectFail
  \/ \E x \in Writes : Write(x)
  \/ \E s \in Shutdowns, kind \in Signals \cup Faults, ok \in BOOLEAN : Trigger(s, kind, ok)
  \/ \E s \in Shutdowns : Close(s)
  \/ \E s \in Shutdowns, ok \in BOOLEAN : CloseDone(s, ok)

SpecStdout == InitStdout /\ [][NextStdout]_vars

(***************************************************************************)
(* Properties.                                                             *)
(***************************************************************************)
Count(log, what) == Cardinality({i \in 1..Len(log) : log[i] = what})

\* the external calls a log may hold
IO == {"fetch", "sign", "publish", "lookup", "zap"}

NoIO(log) == \A i \in 1..Len(log) : log[i] \notin IO

ToolCalls == {c \in DOMAIN call : call[c].via = "tool"}

Ended(c) == call[c].pc = "done"

\* C1: an operation of NostrClient entered while connected is false ends at
\* once with the NostrError not_connected (thrown to a direct caller, an
\* isError payload of a tool call) and has issued no fetch, sign or publish.
C1_NotConnectedFailsFast ==
  [][\A c \in DOMAIN call :
       (call[c].pc = "idle" /\ call'[c].op \in ClientOps /\ ~connected)
         => /\ call'[c].pc = "done"
            /\ call'[c].err = [cls |-> "NostrError", code |-> "not_connected"]
            /\ call'[c].code = "not_connected"
            /\ call'[c].out \in {"thrown", "isError"}
            /\ NoIO(call'[c].log)]_vars

\* C1 witness: after a connect() that succeeded and a disconnect() that ran,
\* an operation was refused with not_connected.
C1_Witness ==
  \E c \in DOMAIN call :
    /\ call[c].op = "getUnrepliedMentions"
    /\ call[c].out = "thrown"
    /\ call[c].code = "not_connected"
    /\ startPc = "connected"
    /\ lastDisconnect = "ok"

\* C2: in every tool call the arguments are parsed before a client operation
\* is entered; arguments the schema accepts enter exactly one operation,
\* arguments it rejects enter none.
C2_ValidateThenOneOperation ==
  \A c \in ToolCalls :
    LET cl == call[c]
        ok == \/ cl.name = "post_note" /\ PostNoteSchema(cl.args)
              \/ cl.name = "post_comment" /\ PostCommentSchema(cl.args)
              \/ cl.name = "update_profile" /\ UpdateProfileSchema(cl.args)
              \/ cl.name = "send_zap" /\ ZapNoteSchema(cl.args)
              \/ cl.name = "get_replies" /\ GetRepliesSchema(cl.args)
              \/ cl.name = "get_unanswered_comments" /\ GetUnansweredCommentsSchema(cl.args)
              \/ cl.name = "get_latest_posts" /\ GetLatestPostsSchema(cl.args)
              \/ cl.name = "create_timestamp_attestation"
                   /\ CreateTimestampAttestationSchema(cl.args)
    IN /\ Count(cl.log, "op") = (IF ok THEN 1 ELSE 0)
       /\ ok => cl.op = OpOfTool(cl.name)
       /\ ~ok => cl.op = "" /\ NoIO(cl.log) /\ Ended(c)
       /\ \A i \in 1..Len(cl.log) :
            cl.log[i] \in IO \cup {"op", "validateState"}
              => \E j \in 1..(i - 1) : cl.log[j] = "safeParse"

\* C2 witness: one call was rejected by its schema and entered no operation,
\* another passed and is inside its one operation.
C2_Witness ==
  \E c, d \in ToolCalls :
    /\ call[c].name = "post_note" /\ call[c].code = "InvalidParams" /\ call[c].op = ""
    /\ call[d].name = "post_comment" /\ call[d].pc = "publish"
    /\ Count(call[d].log, "op") = 1

\* sixty-four characters, each a hexadecimal digit
SixtyFourHex(x) ==
  /\ x.k = "string"
  /\ Len(x.v) = 64
  /\ \A i \in 1..Len(x.v) : x.v[i] \in HexChars

IdTools == {"post_comment", "get_replies", "get_unanswered_comments",
            "create_timestamp_attestation"}

\* the ids of a call that are not 64 hexadecimal characters
BadId(cl) ==
  \/ cl.name = "post_comment"
       /\ (~SixtyFourHex(cl.args.rootId)
           \/ (cl.args.parentId.k # "undefined" /\ ~SixtyFourHex(cl.args.parentId)))
  \/ cl.name \in IdTools \ {"post_comment"} /\ ~SixtyFourHex(cl.args.eventId)

\* C3: post_comment, get_replies, get_unanswered_comments and
\* create_timestamp_attestation reject an eventId, rootId or parentId that is
\* not 64 hexadecimal characters with InvalidParams, before any fetch, sign
\* or publish.
C3_BadIdRejected ==
  \A c \in ToolCalls :
    (call[c].name \in IdTools /\ BadId(call[c]))
      => /\ Ended(c)
         /\ call[c].out = "fault"
         /\ call[c].code = "InvalidParams"
         /\ call[c].op = ""
         /\ NoIO(call[c].log)

\* C3 witness: a 65-character parentId whose first 64 characters are
\* hexadecimal was rejected.
C3_Witness ==
  \E c \in ToolCalls :
    /\ call[c].name = "post_comment"
    /\ SixtyFourHex(call[c].args.rootId)
    /\ Len(call[c].args.parentId.v) = 65
    /\ call[c].code = "InvalidParams"

\* C4: a call of a tool that is not registered ends in the protocol fault
\* MethodNotFound, passed on by handleError, and enters no client operation.
C4_UnknownToolMethodNotFound ==
  \A c \in ToolCalls :
    call[c].name \notin ToolNames
      => /\ Ended(c)
         /\ call[c].out = "fault"
         /\ call[c].code = "MethodNotFound"
         /\ call[c].op = ""
         /\ call[c].log = <<"handleError">>

\* C4 witness: no_such_tool was called and refused.
C4_Witness ==
  \E c \in ToolCalls : call[c].name = "no_such_tool" /\ call[c].code = "MethodNotFound"

\* the call failed inside its client operation: the operation was entered
\* and the call ended without the operation returning
FailedInClient(cl) ==
  /\ cl.pc = "done"
  /\ Count(cl.log, "op") = 1
  /\ cl.result = <<>>
  /\ cl.err.cls = "NostrError"

\* C5: a tool call whose client operation fails with a NostrError ends with
\* an isError payload carrying that error, never with a protocol fault; a
\* protocol fault comes only from rejected arguments, an unknown tool or an
\* error that is neither McpError nor NostrError.
C5_DomainErrorsArePayloads ==
  \A c \in ToolCalls :
    LET cl == call[c]
    IN /\ FailedInClient(cl) => cl.out = "isError" /\ cl.code = cl.err.code
       /\ cl.out = "isError" => FailedInClient(cl)
       /\ cl.out = "fault"
            => \/ cl.code = "InvalidParams" /\ cl.op = "" /\ cl.name \in ToolNames
               \/ cl.code = "MethodNotFound" /\ cl.name \notin ToolNames
               \/ cl.code = "InternalError" /\ cl.err.cls = "Error"

\* C5 witness: a publish failed and the call ended with the post_error payload,
\* and another call ended with the not_connected payload.
C5_Witness ==
  \E c, d \in ToolCalls :
    /\ call[c].out = "isError" /\ call[c].code = "post_error"
    /\ Count(call[c].log, "publish") = 1
    /\ call[d].out = "isError" /\ call[d].code = "not_connected"

\* C6: an error that is neither a McpError nor a NostrError ends the call in
\* the protocol fault InternalError; a McpError leaves with the code it was
\* raised with, InvalidParams or MethodNotFound.
C6_UnclassifiedIsInternalError ==
  \A c \in ToolCalls :
    LET cl == call[c]
    IN /\ cl.err.cls = "Error" => cl.out = "fault" /\ cl.code = "InternalError"
       /\ cl.err.cls = "McpError"
            => /\ cl.out = "fault"
               /\ cl.code = cl.err.code
               /\ cl.code = (IF cl.name \in ToolNames THEN "InvalidParams"
                             ELSE "MethodNotFound")
       /\ (Ended(c) /\ cl.name \notin ToolNames) => cl.err.cls = "McpError"
       /\ (Ended(c) /\ cl.name \in ToolNames /\ cl.op = "") => cl.err.cls = "McpError"

\* C6 witness: formatting a fetched event whose content is not a string threw
\* a TypeError and the call ended in InternalError, and another call ended in
\* InvalidParams.
C6_Witness ==
  \E c, d \in ToolCalls :
    /\ call[c].err.cls = "Error" /\ call[c].code = "InternalError"
    /\ Count(call[c].log, "fetch") = 1
    /\ call[d].err.cls = "McpError" /\ call[d].code = "InvalidParams"

\* the calls of client operation op that returned
Returned(op) ==
  {c \in DOMAIN call : call[c].op = op /\ Ended(c) /\ call[c].out = "result"}

HasTime(r) == r.created_at.k = "number"

\* newest first, among the records that carry a timestamp
NewestFirst(result) ==
  \A i, j \in 1..Len(result) :
    (i < j /\ HasTime(result[i]) /\ HasTime(result[j]))
      => result[i].created_at.n >= result[j].created_at.n

\* C7: get_replies returns one record for each fetched event, none added and
\* none dropped, newest first (a record without a timestamp sorts as 0).
C7_RepliesNewestFirst ==
  \A c \in Returned("getReplies") :
    LET got == call[c].got
        result == call[c].result
    IN /\ Len(result) = Len(got)
       /\ \A i \in 1..Len(got) :
            Cardinality({j \in 1..Len(result) :
                           /\ result[j].id = got[i].id
                           /\ result[j].pubkey = got[i].pubkey
                           /\ result[j].content = got[i].content
                           /\ result[j].created_at = got[i].created_at}) = 1
       /\ NewestFirst(result)
       /\ \A i, j \in 1..Len(result) :
            (i < j /\ ~HasTime(result[i])) => (HasTime(result[j]) => result[j].created_at.n <= 0)

\* C7 witness: three events were fetched oldest first and returned.
C7_Witness ==
  \E c \in Returned("getReplies") :
    /\ Len(call[c].got) = 3
    /\ call[c].got[1].created_at = Num(1)
    /\ call[c].got[2].created_at = Num(1)
    /\ call[c].got[3].created_at = Num(2)
    /\ Len(call[c].result) = 3

\* an "e" tag whose fourth element is the marker "reply"
ReplyMarked(tag) == Len(tag) >= 4 /\ tag[1] = "e" /\ tag[4] = "reply"


\* C8: an event whose id is the target of a reply-marked "e" tag of a fetched
\* event of the signer is not in the output of get_unanswered_comments,
\* wherever the tag stands in the tag list and the event in the fetch result.
C8_AnsweredExcluded ==
  \A c \in Returned("getUnansweredComments") :
    LET got == call[c].got
        result == call[c].result
    IN \A i \in 1..Len(got) :
         got[i].pubkey = Me
           => \A j \in 1..Len(got[i].tags) :
                ReplyMarked(got[i].tags[j])
                  => \A r \in 1..Len(result) : result[r].id # got[i].tags[j][2]

\* C8 witness: the signer's event came first in the fetch result, its reply
\* tag second in its tag list; the comment it answers was left out and the
\* other comment returned.
C8_Witness ==
  \E c \in Returned("getUnansweredComments") :
    LET got == call[c].got
    IN /\ Len(got) = 3
       /\ got[1].pubkey = Me
       /\ Len(got[1].tags) = 2
       /\ got[1].tags[2] = ReplyTo(got[3].id)
       /\ got[2].pubkey # Me
       /\ got[3].pubkey # Me
       /\ Len(call[c].result) = 1
       /\ call[c].result[1].id = got[2].id

\* an "e" tag of exactly four elements whose fourth is the marker "reply"
ReplyMarkedOfFour(tag) == Len(tag) = 4 /\ tag[1] = "e" /\ tag[4] = "reply"

\* a reply-marked "e" tag, of exactly four elements when exact
Marks(tag, exact) == IF exact THEN ReplyMarkedOfFour(tag) ELSE ReplyMarked(tag)

\* a fetched event of the signer carries a marking tag that points at id
Targeted(got, id, exact) ==
  \E i \in 1..Len(got) :
    /\ got[i].pubkey = Me
    /\ \E j \in 1..Len(got[i].tags) :
         Marks(got[i].tags[j], exact) /\ got[i].tags[j][2] = id

\* the output is the fetched events of others that no marking tag of the
\* signer points at, in fetch order, each with its fields
UnansweredAre(c, exact) ==
  LET got == call[c].got
      result == call[c].result
      Kept(ev) == ev.pubkey # Me /\ ~Targeted(got, ev.id, exact)
      kept == SelectSeq(got, Kept)
  IN /\ Len(result) = Len(kept)
     /\ \A i \in 1..Len(kept) :
          /\ result[i].id = kept[i].id
          /\ result[i].pubkey = kept[i].pubkey
          /\ result[i].content = kept[i].content
          /\ result[i].created_at = kept[i].created_at
          /\ result[i].tags = kept[i].tags
     /\ \A i \in 1..Len(result) : result[i].pubkey # Me

\* C9 as stated: get_unanswered_comments returns every fetched event of
\* others that no reply-marked 4-element "e" tag of the signer points at, and
\* no event of the signer.
C9_AsStated ==
  \A c \in Returned("getUnansweredComments") : UnansweredAre(c, TRUE)

\* C9 amended: get_unanswered_comments returns every fetched event of others
\* that no "e" tag of the signer with at least four elements and the fourth
\* element "reply" points at, and no event of the signer; a tag with the
\* marker "root" or with fewer than four elements removes nothing.
C9_UnansweredReturned ==
  \A c \in Returned("getUnansweredComments") : UnansweredAre(c, FALSE)

\* C9 witness: the signer pointed at a comment with a root-marked tag and
\* with a three-element tag, and the comment was returned.
C9_Witness ==
  \E c \in Returned("getUnansweredComments") :
    LET got == call[c].got
    IN /\ Len(got) = 3
       /\ got[1].pubkey = Me /\ got[1].tags = <<RootOf(got[3].id)>>
       /\ got[2].pubkey = Me /\ got[2].tags = << <<"e", got[3].id, "">> >>
       /\ got[3].pubkey # Me
       /\ Len(call[c].result) = 1
       /\ call[c].result[1].id = got[3].id

\* C10 as stated: the output of get_unanswered_comments is ordered newest
\* first.
C10_UnansweredNewestFirst ==
  \A c \in Returned("getUnansweredComments") : NewestFirst(call[c].result)

\* the limit a call was given, when it was given one
HasLimit(cl) == cl.args.limit.k = "number"

\* C11: a get_unanswered_comments call that was given a limit returns at most
\* limit events, also when the fetch returned more than limit events.
C11_AtMostLimit ==
  \A c \in Returned("getUnansweredComments") :
    HasLimit(call[c]) => Len(call[c].result) <= call[c].args.limit.n

\* C12: get_unanswered_comments returns the empty sequence when no fetched
\* event has an author other than the signer, the empty fetch result
\* included, and walks no tag list on the way.
C12_NoOthersNoWork ==
  \A c \in Returned("getUnansweredComments") :
    (\A i \in 1..Len(call[c].got) : call[c].got[i].pubkey = Me)
      => /\ call[c].result = <<>>
         /\ Count(call[c].log, "scanTags") = 0

\* C12 witness: two events of the signer, one of them with a reply tag, were
\* fetched and nothing was returned.
C12_Witness ==
  \E c \in Returned("getUnansweredComments") :
    /\ Len(call[c].got) = 2
    /\ call[c].got[1].pubkey = Me
    /\ call[c].got[2].pubkey = Me
    /\ call[c].got[2].tags = <<ReplyTo("c1")>>
    /\ call[c].result = <<>>

\* the call has called publish() on its event
Publishes(cl) == Count(cl.log, "publish") = 1

HasTag(ev, tag) == \E i \in 1..Len(ev.tags) : ev.tags[i] = tag

\* C13: post_comment publishes a kind-1 event with the tags
\* ["e", rootId, "", "root"] and ["e", parent, "", "reply"], where parent is
\* parentId when it was given and rootId when it was not, and the record it
\* returns carries that parent as parentId.
C13_CommentTagsRootAndReply ==
  \A c \in ToolCalls :
    (call[c].name = "post_comment" /\ Publishes(call[c]))
      => LET a == call[c].args
             parent == IF a.parentId.k = "undefined" THEN a.rootId.v ELSE a.parentId.v
         IN /\ call[c].ev.kind = 1
            /\ call[c].ev.content = a.content
            /\ HasTag(call[c].ev, <<"e", a.rootId.v, "", "root">>)
            /\ HasTag(call[c].ev, <<"e", parent, "", "reply">>)
            /\ call[c].out = "result"
                 => /\ call[c].result[1].parentId.v = parent
                    /\ call[c].result[1].rootId = a.rootId
                    /\ call[c].result[1].tags = call[c].ev.tags

\* C13 witness: a comment without parentId was published and returned with
\* rootId as its parentId.
C13_Witness ==
  \E c \in ToolCalls :
    /\ call[c].name = "post_comment"
    /\ call[c].args.parentId.k = "undefined"
    /\ call[c].out = "result"
    /\ call[c].result[1].parentId = call[c].args.rootId
    /\ HasTag(call[c].ev, <<"e", call[c].args.rootId.v, "", "reply">>)

\* the fields a caller supplied, as <<key, value>> pairs
Supplied(a) ==
  {p \in {<<"name", a.name>>, <<"about", a.about>>, <<"display_name", a.display_name>>} :
     p[2].k # "undefined"}

PairsOf(obj) == {obj[i] : i \in 1..Len(obj)}

KeysOf(obj) == {obj[i][1] : i \in 1..Len(obj)}

\* the published content is the merge of the fetched profile, without the
\* keys in dropped, with the caller's fields, the caller's fields winning
MergedOver(cl, dropped) ==
  LET content == cl.ev.content.v
      existing == cl.got
      given == Supplied(cl.args)
      givenKeys == {p[1] : p \in given}
  IN /\ cl.ev.kind = 0
     /\ \A i, j \in 1..Len(content) : content[i][1] = content[j][1] => i = j
     /\ \A p \in given : <<p[1], p[2].v>> \in PairsOf(content)
     /\ \A p \in PairsOf(existing) :
          (p[1] \notin givenKeys /\ p[1] \notin dropped) => p \in PairsOf(content)
     /\ KeysOf(content) = givenKeys \cup (KeysOf(existing) \ dropped)

\* C14 as stated: update_profile publishes a kind-0 event whose content is
\* the merge of the fetched profile with the caller's fields: each key of the
\* caller has the caller's value, each other key of the fetched profile its
\* fetched value.
C14_AsStated ==
  \A c \in ToolCalls :
    (call[c].name = "update_profile" /\ Publishes(call[c])) => MergedOver(call[c], {})

\* C14 amended: as above, for the fetched profile without its keys
\* created_at and profileEvent, which are not published.
C14_MergeCallerWins ==
  \A c \in ToolCalls :
    (call[c].name = "update_profile" /\ Publishes(call[c]))
      => MergedOver(call[c], {"created_at", "profileEvent"})

\* C14 witness: the fetched profile was {name: A, about: X}, the caller gave
\* {name: B}, and {name: B, about: X} was published.
C14_Witness ==
  \E c \in ToolCalls :
    /\ call[c].name = "update_profile"
    /\ call[c].out = "result"
    /\ call[c].got = << <<"name", <<"A">> >>, <<"about", <<"X">> >> >>
    /\ Supplied(call[c].args) = {<<"name", Str(<<"B">>)>>}
    /\ call[c].ev.content.v = << <<"name", <<"B">> >>, <<"about", <<"X">> >> >>

\* the content holds the caller's fields and nothing else
OnlySupplied(cl) ==
  /\ PairsOf(cl.ev.content.v) = {<<p[1], p[2].v>> : p \in Supplied(cl.args)}
  /\ Len(cl.ev.content.v) = Cardinality(Supplied(cl.args))

\* C15: however the fetch of the existing profile ends, update_profile goes
\* on to sign a kind-0 event; when the fetch threw or returned nothing the
\* content is exactly the caller's fields, and that content is what the call
\* returns once the event is published.
C15_ProfileFetchTolerated ==
  [][\A c \in DOMAIN call :
       /\ (call[c].pc = "fetchProfile" /\ call'[c] # call[c])
            => /\ call'[c].pc = "sign"
               /\ call'[c].err = NoErr
               /\ call'[c].ev.kind = 0
               /\ call'[c].got = <<>> => OnlySupplied(call'[c])
       /\ (call[c].op = "updateProfileMetadata" /\ call[c].pc = "publish"
              /\ call'[c].pc = "done" /\ call'[c].err = NoErr)
            => /\ call'[c].out = "result"
               /\ call'[c].result[1].content = call[c].ev.content]_vars

\* C15 witness: fetchProfile threw, and the call returned the caller's fields
\* name and about as the published content.
C15_Witness ==
  \E c \in ToolCalls :
    /\ call[c].name = "update_profile"
    /\ Count(call[c].log, "warn") = 1
    /\ call[c].out = "result"
    /\ call[c].result[1].content.v = << <<"name", <<"B">> >>, <<"about", <<"Y">> >> >>

\* C16 as stated: when send_zap finds no recipient for the NIP-05 address,
\* the call ends with an error of the input class, not with the zap_error of
\* a failed zap, and no zap was started.
C16_UnresolvedIsInputError ==
  \A c \in DOMAIN call :
    (call[c].op = "sendZap" /\ Count(call[c].log, "noRecipient") = 1)
      => /\ Ended(c)
         /\ call[c].err # NoErr
         /\ call[c].code # "zap_error"
         /\ Count(call[c].log, "zap") = 0

LimitTools == {"get_replies", "get_unanswered_comments", "get_latest_posts"}

\* C17: get_replies, get_unanswered_comments and get_latest_posts reject a
\* limit above 500 or below 1 with InvalidParams and issue no fetch; a limit
\* is never replaced by 500: the filter of a call that fetches carries the
\* limit the caller gave.
C17_LimitOutOfRangeRejected ==
  \A c \in ToolCalls :
    (call[c].name \in LimitTools /\ HasLimit(call[c]))
      => /\ (call[c].args.limit.n > 500 \/ call[c].args.limit.n < 1)
              => /\ Ended(c)
                 /\ call[c].out = "fault"
                 /\ call[c].code = "InvalidParams"
                 /\ call[c].op = ""
                 /\ NoIO(call[c].log)
                 /\ call[c].filter = NoFilter
         /\ Count(call[c].log, "fetch") = 1 => call[c].filter.limit = call[c].args.limit

\* C17 witness: get_unanswered_comments with limit 501 was rejected.
C17_Witness ==
  \E c \in ToolCalls :
    /\ call[c].name = "get_unanswered_comments"
    /\ call[c].args.limit = Num(501)
    /\ SixtyFourHex(call[c].args.eventId)
    /\ call[c].code = "InvalidParams"

\* C18 as stated: a get_replies or get_unanswered_comments call without a
\* limit fetches with the limit 50 in its filter.
C18_DefaultLimitFifty ==
  \A c \in DOMAIN call :
    (/\ call[c].op \in {"getReplies", "getUnansweredComments"}
     /\ ~HasLimit(call[c])
     /\ Count(call[c].log, "fetch") = 1)
      => call[c].filter.limit = Num(50)

\* a fetched reply of the signer carries a reply-marked "e" tag to id
Replied(replies, id) ==
  \E i \in 1..Len(replies) :
    /\ replies[i].pubkey = Me
    /\ \E j \in 1..Len(replies[i].tags) :
         ReplyMarked(replies[i].tags[j]) /\ replies[i].tags[j][2] = id

\* C19: getUnrepliedMentions returns exactly the fetched mentions that are
\* not the signer's own and that no fetched reply of the signer points at
\* with a reply-marked "e" tag, one record for each, newest first (a record
\* without a timestamp sorts as 0).
C19_UnrepliedMentions ==
  \A c \in Returned("getUnrepliedMentions") :
    LET got == call[c].got
        result == call[c].result
        Kept(ev) == ev.pubkey # Me /\ ~Replied(call[c].replies, ev.id)
        kept == SelectSeq(got, Kept)
    IN /\ Len(result) = Len(kept)
       /\ \A i \in 1..Len(kept) :
            Cardinality({j \in 1..Len(result) :
                           /\ result[j].id = kept[i].id
                           /\ result[j].pubkey = kept[i].pubkey
                           /\ result[j].content = kept[i].content
                           /\ result[j].created_at = kept[i].created_at
                           /\ result[j].tags = kept[i].tags}) = 1
       /\ NewestFirst(result)
       /\ \A i, j \in 1..Len(result) :
            (i < j /\ ~HasTime(result[i]))
              => (HasTime(result[j]) => result[j].created_at.n <= 0)

\* C19 witness: three mentions were fetched, the first the signer's own, the
\* other two oldest first; the signer's second reply answers the third with
\* the second tag of its list, and the second mention alone was returned.
C19_Witness ==
  \E c \in Returned("getUnrepliedMentions") :
    LET got == call[c].got
        replies == call[c].replies
    IN /\ Len(got) = 3
       /\ got[1].pubkey = Me
       /\ got[2].pubkey # Me
       /\ got[3].pubkey # Me
       /\ Len(replies) = 2
       /\ replies[1].tags = <<RootOf(got[3].id)>>
       /\ replies[2].tags = <<RootOf("c1"), ReplyTo(got[3].id)>>
       /\ Len(call[c].result) = 1
       /\ call[c].result[1].id = got[2].id

\* the number a sequence of decimal digits denotes
RECURSIVE DecimalValue(_)
DecimalValue(s) ==
  IF s = <<>> THEN 0
  ELSE 10 * DecimalValue(SubSeq(s, 1, Len(s) - 1))
       + (CHOOSE d \in 0..9 : Digits[d + 1] = s[Len(s)])

\* s is the decimal string of n: digits only, no leading zero, value n
IsDecimalOf(s, n) ==
  /\ Len(s) >= 1
  /\ \A i \in 1..Len(s) : \E d \in 0..9 : Digits[d + 1] = s[i]
  /\ (Len(s) > 1 => s[1] # "0")
  /\ DecimalValue(s) = n

\* C20: create_timestamp_attestation publishes an event of kind 1040 whose
\* tags are ["e", eventId, "", ""] and then ["k", the decimal string of
\* eventKind], no other tag, and whose content is the otsProof as given.
C20_AttestationEvent ==
  \A c \in ToolCalls :
    (call[c].name = "create_timestamp_attestation" /\ Publishes(call[c]))
      => LET ev == call[c].ev
             a == call[c].args
         IN /\ ev.kind = 1040
            /\ Len(ev.tags) = 2
            /\ ev.tags[1] = <<"e", a.eventId.v, "", "">>
            /\ Len(ev.tags[2]) = 2
            /\ ev.tags[2][1] = "k"
            /\ IsDecimalOf(ev.tags[2][2], a.eventKind.n)
            /\ ev.content = a.otsProof

\* C20 witness: the attestation of an event of kind 1040 was published with
\* the tag ["k", "1040"].
C20_Witness ==
  \E c \in ToolCalls :
    /\ call[c].name = "create_timestamp_attestation"
    /\ call[c].args.eventKind = Num(1040)
    /\ call[c].out = "result"
    /\ call[c].ev.tags[2] = <<"k", <<"1", "0", "4", "0">> >>

PublishingOps ==
  {"postNote", "postComment", "updateProfileMetadata", "createTimestampAttestation"}

\* the position of the first what in log, 0 when there is none
FirstAt(log, what) ==
  IF Count(log, what) = 0 THEN 0
  ELSE CHOOSE i \in 1..Len(log) :
         log[i] = what /\ \A j \in 1..(i - 1) : log[j] # what

\* sign is called at most once, publish only after it and on the signed
\* event, and the record returned is read from the signed event
SignedThenPublished(cl) ==
  /\ Count(cl.log, "sign") <= 1
  /\ Count(cl.log, "publish") <= 1
  /\ Count(cl.log, "publish") = 1 =>
       /\ Count(cl.log, "sign") = 1
       /\ FirstAt(cl.log, "sign") < FirstAt(cl.log, "publish")
       /\ cl.ev.signed
  /\ cl.out = "result" =>
       /\ cl.ev.signed
       /\ Count(cl.log, "publish") = 1
       /\ cl.result[1].id = cl.ev.id
       /\ cl.result[1].pubkey = cl.ev.pubkey
       /\ (cl.op # "createTimestampAttestation" => cl.result[1].content = cl.ev.content)

\* a step of a call keeps the event once it is signed, and a call that ends
\* while it waits for sign() has not called publish
KeptAfterSigning(before, after) ==
  /\ before.ev.signed => after.ev = before.ev
  /\ (before.pc = "sign" /\ after.pc = "done") =>
       /\ Count(after.log, "publish") = 0
       /\ after.out # "result"

EventAlone(cl, stored) ==
  IF cl.name = "update_profile"
  THEN Signed(NewEvent(0, Str(Spread(WithoutInternal(stored), MetadataOf(cl.args))), <<>>), 0)
  ELSE Signed(AfterValidateState(OpOfTool(cl.name), cl.args).ev, 0)

\* the events published when the calls run one after the other, in the
\* order given, from the i-th on
RECURSIVE SerialRun(_, _, _)
SerialRun(order, i, stored) ==
  IF i > Len(order) THEN <<>>
  ELSE LET ev == EventAlone(call[order[i]], stored)
       IN <<ev>> \o SerialRun(order, i + 1, IF ev.kind = 0 THEN ev.content.v ELSE stored)

\* the orders in which the calls can run one after the other
Orders == {p \in [DOMAIN call -> DOMAIN call] : \A i, j \in DOMAIN call : p[i] = p[j] => i = j}

\* two events are the same event: same kind, content, tags, id and author
SameEvent(a, b) == IF a.kind # b.kind THEN FALSE ELSE a = b

\* two sequences hold the same events, each as often
SameEvents(s, t) ==
  /\ Len(s) = Len(t)
  /\ \E q \in [1..Len(s) -> 1..Len(s)] :
       /\ \A i, j \in 1..Len(s) : q[i] = q[j] => i = j
       /\ \A i \in 1..Len(s) : SameEvent(s[i], t[q[i]])

AllReturned == \A c \in DOMAIN call : call[c].out = "result"

\* C22: when overlapping tool calls have all returned, the events published
\* are those of some execution of the same calls one after the other; this
\* includes update_profile calls that each read the profile before either
\* writes.
C22_SameAsSomeSerialRun ==
  AllReturned =>
    \E p \in Orders : SameEvents(relay.published, SerialRun(p, 1, FirstProfile))

NoteEvent(ev) == ev.kind = 1 /\ ev.content = Str(Text) /\ ev.tags = <<>>

\* C23: of the overlapping post_note calls with the same content, each one
\* that returned has published one event of its own, and none waits for
\* another: a call suspended at sign or publish can always go on.
C23_OnePublishPerCall ==
  LET notes == {c \in DOMAIN call : call[c].name = "post_note"}
  IN /\ Cardinality({i \in 1..Len(relay.published) : NoteEvent(relay.published[i])})
          = Cardinality({c \in notes : call[c].out = "result"})
     /\ \A c \in notes :
          /\ call[c].pc = "sign" => ENABLED SignOk(c)
          /\ call[c].pc = "publish" => ENABLED PublishOk(c)

\* C23 witness: of two post_note calls with the same content the later one
\* has published and returned while the earlier one still waits for sign().
C23_Witness ==
  /\ \A c \in DOMAIN call : call[c].name = "post_note" /\ call[c].args.content = Str(Text)
  /\ call[1].pc = "sign"
  /\ \A c \in DOMAIN call \ {1} : call[c].out = "result"
  /\ Len(relay.published) = Cardinality(DOMAIN call) - 1

\* the shutdown invocations begun by a signal: shutdown() with its default code
BySignal == {s \in DOMAIN shut : shut[s].pc # "idle" /\ shut[s].code = 0}

\* the shutdown invocations begun by a process-wide fault: shutdown(1)
ByFault == {s \in DOMAIN shut : shut[s].pc # "idle" /\ shut[s].code = 1}

\* the steps of a shutdown without the restore of stdout
Calls24(s) ==
  LET Counted(x) == x # "restore"
  IN SelectSeq(shut[s].steps, Counted)

\* s begins as t does
IsPrefix(s, t) == Len(s) <= Len(t) /\ \A i \in 1..Len(s) : s[i] = t[i]

\* C24: a shutdown begun by SIGINT or SIGTERM in the stdio server calls
\* disconnect, then close, then exit(0), in this order; when disconnect or
\* close throws, nothing but exit(1) follows; and the exit code of the
\* process is the one the shutdown that exited has passed.
C24_SignalShutdownOrder ==
  mode = "stdio" =>
    \A s \in BySignal :
      /\ \/ /\ Calls24(s) # <<>>
            /\ IsPrefix(Calls24(s), <<"disconnect", "close", "exit(0)">>)
         \/ Calls24(s) = <<"disconnect", "threw", "exit(1)">>
         \/ Calls24(s) = <<"disconnect", "close", "threw", "exit(1)">>
      /\ shut[s].pc = "done" =>
           /\ exited
           /\ exitCode = (IF Calls24(s)[Len(Calls24(s))] = "exit(0)" THEN 0 ELSE 1)

\* C24 witness: a shutdown begun by a signal has disconnected, closed the
\* server and exited with code 0.
C24_Witness ==
  /\ mode = "stdio"
  /\ exited
  /\ exitCode = 0
  /\ \E s \in BySignal : Calls24(s) = <<"disconnect", "close", "exit(0)">>

\* C25: once an uncaughtException or unhandledRejection has begun a
\* shutdown, a process that has exited has a non-zero exit code.
C25_FaultExitsNonZero ==
  (ByFault # {} /\ exited) => exitCode # 0

\* C26: shutdown neither cancels nor waits for the calls in flight: no step
\* of a shutdown changes a call, a shutdown that waits for close can exit
\* whatever the calls are doing, and a call that has passed validateState
\* and issued a fetch, sign or publish never ends with not_connected.
C26_ShutdownLeavesCallsAlone ==
  /\ [](\A c \in DOMAIN call : ~NoIO(call[c].log) => call[c].code # "not_connected")
  /\ [](\A s \in DOMAIN shut :
          (~exited /\ shut[s].pc = "closing") => ENABLED CloseDone(s, TRUE))
  /\ [][shut' # shut => call' = call]_vars

\* C26 witness: the process has exited after a disconnect while a tool call
\* that was let in by validateState has signed its event and waits for
\* publish to complete.
C26_Witness ==
  /\ exited
  /\ ~connected
  /\ lastDisconnect = "ok"
  /\ \E c \in ToolCalls :
       /\ call[c].pc = "publish"
       /\ call[c].ev.signed
       /\ Count(call[c].log, "validateState") = 1
       /\ call[c].code # "not_connected"

\* a shutdown invocation begins in this step: it calls disconnect()
ShutdownBegins(s) == shut[s].pc = "idle" /\ shut'[s].pc # "idle"

\* how a step treats the connected flag
ConnectedStep ==
  /\ call' # call => connected' = connected
  /\ startPc' # startPc => connected' = (startPc' = "connected")
  /\ \A s \in DOMAIN shut :
       ShutdownBegins(s) =>
         connected' = (IF \E i \in 1..Len(shut'[s].steps) : shut'[s].steps[i] = "threw"
                       THEN connected ELSE FALSE)
  /\ (mode = "library" /\ lastDisconnect' # lastDisconnect) =>
       connected' = (IF lastDisconnect' = "ok" THEN FALSE ELSE connected)
  /\ connected' # connected =>
       \/ startPc' # startPc
       \/ \E s \in DOMAIN shut : ShutdownBegins(s)
       \/ mode = "library" /\ call' = call /\ lastDisconnect' = "ok"

\* C27: connected is false until a connect() has succeeded; a step changes
\* it only if it is the end of connect() (true on success, false on failure)
\* or a disconnect() (false when it succeeds, unchanged when it throws);
\* no step of a tool call or client operation changes it.
C27_ConnectedFrame ==
  /\ [](connected => startPc = "connected")
  /\ [][ConnectedStep]_vars

\* C27 witness: disconnect() threw and left connected true, and a call has
\* ended as well.
C27_Witness ==
  /\ connected
  /\ lastDisconnect = "threw"
  /\ \E c \in DOMAIN call : Ended(c) /\ ~NoIO(call[c].log)

\* where a call waits for the external library
Waits == {"sign", "publish", "fetch", "fetchReplies", "lookup", "zap"}

\* the call ends in this step because the await it waited for failed: it
\* ends without a result and without having been handed fetched events
AwaitFailed(before, after) ==
  /\ before.pc \in Waits
  /\ after.pc = "done"
  /\ after.out # "result"
  /\ after.got = before.got

\* how a step ends a client operation with an error
EscapesAsNostrError(before, after) ==
  /\ AwaitFailed(before, after) =>
       /\ after.err = [cls |-> "NostrError",
                       code |-> IF after.op = "sendZap" THEN "zap_error" ELSE "post_error"]
       /\ after.via = "tool" => after.out = "isError" /\ after.code = after.err.code
       /\ after.via = "client" => after.out = "thrown" /\ after.code = after.err.code
  /\ (before.pc = "idle" /\ after.pc = "done" /\ after.op \in ClientOps /\ ~connected) =>
       after.err = [cls |-> "NostrError", code |-> "not_connected"]

\* C28: an error that leaves a NostrClient operation is a NostrError: the
\* not_connected error raised inside is passed on as it is, and a failed
\* fetch, sign, publish, lookup or zap is wrapped as post_error (zap_error in
\* sendZap); a tool call ends with InternalError only after its operation
\* has returned.
C28_ClientErrorsAreNostrErrors ==
  /\ [](\A c \in DOMAIN call :
          /\ (call[c].via = "client" /\ call[c].err # NoErr) => call[c].err.cls = "NostrError"
          /\ (call[c].op # "" /\ call[c].code = "InternalError") => call[c].got # <<>>)
  /\ [][\A c \in DOMAIN call : EscapesAsNostrError(call[c], call'[c])]_vars

\* C28 witness: a send_zap call whose zap failed has ended with the payload
\* of a zap_error.
C28_Witness ==
  \E c \in ToolCalls :
    /\ call[c].name = "send_zap"
    /\ Ended(c)
    /\ Count(call[c].log, "zap") = 1
    /\ call[c].out = "isError"
    /\ call[c].code = "zap_error"

\* a tool call is dispatched in this step
Dispatched(c) == call[c].pc = "idle" /\ call'[c].via = "tool"

\* C29: the stdio server has its transport attached only once connect() has
\* succeeded, takes no tool call before that, and after a failed connect()
\* stays without transport, start() having thrown ConnectionError; the SSE
\* server takes tool calls before connect() has succeeded, and such a call
\* that gets as far as the client ends with a not_connected payload.
C29_AttachAfterConnect ==
  /\ [](mode = "stdio" =>
          /\ attached => startPc = "connected"
          /\ startPc # "connected" => \A c \in DOMAIN call : call[c].pc = "idle"
          /\ startPc = "failed" =>
               ~attached /\ startErr = [cls |-> "NostrError", code |-> "connection_error"])
  /\ [][\A c \in DOMAIN call :
          (mode = "sse" /\ Dispatched(c) /\ startPc # "connected"
             /\ call'[c].op \in ClientOps)
            => /\ call'[c].pc = "done"
               /\ call'[c].out = "isError"
               /\ call'[c].code = "not_connected"]_vars

\* C29 witness: the SSE server, still connecting, has answered a post_note
\* call with a not_connected payload.
C29_Witness ==
  /\ mode = "sse"
  /\ startPc = "connecting"
  /\ \E c \in ToolCalls :
       /\ call[c].name = "post_note"
       /\ call[c].out = "isError"
       /\ call[c].code = "not_connected"

\* C30: in the stdio server a write made before any shutdown has begun goes
\* to stdout when it is a string holding the JSON-RPC marker and to stderr
\* otherwise, and a write made after a shutdown has restored
\* process.stdout.write goes to stdout whatever it is.
C30_StdoutFilteredUntilRestored ==
  (mode = "stdio" /\ written.to # "none") =>
    IF written.restored THEN written.to = "stdout"
    ELSE written.to = (IF written.what.k = "string" /\ StrIncludes(written.what.v, Marker)
                       THEN "stdout" ELSE "stderr")

====
